---- MODULE Spec2Model ----
(***************************************************************************)
(* A model of the EZTV downloader (src/eztv.py): the release selector      *)
(* best_torrent_match, the paginated feed fetch fetch_eztv_data, the JSON  *)
(* cache read_cache / write_cache, the document functions convert_cache,   *)
(* add_shows, remove_shows and purge_shows, and the run of main.           *)
(***************************************************************************)
EXTENDS Integers, Sequences, FiniteSets, TLC

VARIABLES
    pc,            \* position of the modelled code
    torrent_list,  \* best_torrent_match: its argument
    best_link,     \* best_torrent_match: its return value
    page_count,    \* fetch_eztv_data: its argument
    page,          \* fetch_eztv_data: the page of the outer loop
    url_index,     \* fetch_eztv_data: index into API_URLS, from 0
    attempt,       \* fetch_eztv_data: the attempt of the retry loop, from 1
    torrents,      \* fetch_eztv_data: the releases accumulated
    page_log,      \* the requests issued for the page requested last, and their results
    requested,     \* the pages a request was issued for
    fail_kinds,    \* how the failed requests of the current page failed
    got_404,       \* the pages a request for which was answered with status 404
    outcome,       \* per page, how the loop body ended for it
    disk,          \* ~/.eztv/downloader.json: absent, truncated, or its JSON text
    args,          \* main: the parsed command line
    cache_dict,    \* main: the document in memory
    loaded_doc,    \* the document read_cache returned at the start of the run
    cache_update,  \* main: cache_update
    eztv_data,     \* main: the releases fetch_eztv_data returned
    shows_left,    \* main: the shows `for imdb_id in cache_dict['shows']` has yet to visit
    loop_show,     \* main: imdb_id of the show loop
    seasons_left,  \* main: the seasons the season loop has yet to visit
    loop_season,   \* main: season of the season loop
    episodes_left, \* main: the episodes the episode loop has yet to visit
    sink,          \* the calls of tc.add_torrent in this run, in order
    writes,        \* the calls of write_cache in this run
    write_result,  \* what the last write_cache of this run returned
    effects,       \* main: which of read_cache, get_imdb_meta, fetch_eztv_data this run called
    op,            \* the function called on the document: add_shows, remove_shows, ...
    op_ids,        \* its list of ids
    op_found,      \* per get_imdb_meta it may call, whether the lookup succeeds
    op_before,     \* the document it was handed, as it was before the call
    op_result,     \* what it returned
    op_log         \* the messages it logged

selectVars == <<torrent_list, best_link>>
fetchVars == <<page_count, page, url_index, attempt, torrents, page_log, requested,
               fail_kinds, got_404, outcome>>
mainVars == <<disk, args, cache_dict, loaded_doc, cache_update, eztv_data, shows_left,
              loop_show, seasons_left, loop_season, episodes_left, sink, writes,
              write_result, effects>>
opsVars == <<op, op_ids, op_found, op_before, op_result, op_log>>
vars == <<pc, selectVars, fetchVars, mainVars, opsVars>>

(***************************************************************************)
(* Bounds of the model.                                                    *)
(***************************************************************************)
MaxLen == 3        \* longest release list handed to best_torrent_match
MaxSeeds == 1      \* seed counts range over 0..MaxSeeds
MaxPages == 3      \* page_count ranges over 0..MaxPages
MaxFeed == 2       \* most releases fetch_eztv_data returns to main
MaxIds == 2        \* longest list of ids handed to add_shows, remove_shows, purge_shows

(***************************************************************************)
(* Strings are sequences of one-character strings, so that str.upper() and *)
(* the substring test `tok in file_name` are computed, not assumed.        *)
(***************************************************************************)
LetterPairs ==
    {<<"a", "A">>, <<"b", "B">>, <<"c", "C">>, <<"d", "D">>, <<"e", "E">>,
     <<"f", "F">>, <<"g", "G">>, <<"h", "H">>, <<"i", "I">>, <<"j", "J">>,
     <<"k", "K">>, <<"l", "L">>, <<"m", "M">>, <<"n", "N">>, <<"o", "O">>,
     <<"p", "P">>, <<"q", "Q">>, <<"r", "R">>, <<"s", "S">>, <<"t", "T">>,
     <<"u", "U">>, <<"v", "V">>, <<"w", "W">>, <<"x", "X">>, <<"y", "Y">>, <<"z", "Z">>}

LowerToUpper ==
    [c \in {p[1] : p \in LetterPairs} |-> (CHOOSE p \in LetterPairs : p[1] = c)[2]]

\* str.upper(): every lower-case letter becomes its upper-case letter.
upper(s) ==
    [i \in 1..Len(s) |-> IF s[i] \in DOMAIN LowerToUpper THEN LowerToUpper[s[i]] ELSE s[i]]

\* Python's `tok in s` on strings: tok occurs as a contiguous substring of s.
str_in(tok, s) ==
    \E i \in 1..(Len(s) - Len(tok) + 1) : SubSeq(s, i, i + Len(tok) - 1) = tok

\* The codec and resolution tokens, in the order of the two loops.
Codecs ==
    << <<"H", "E", "V", "C">>, <<"H", "2", "6", "5">>, <<"X", "2", "6", "5">>,
       <<"H", "2", "6", "4">>, <<"X", "2", "6", "4">> >>
Sizes ==
    << <<"1", "0", "8", "0", "P">>, <<"7", "2", "0", "P">>,
       <<"H", "D", "T", "V">>, <<"4", "8", "0", "P">> >>

(***************************************************************************)
(* The file names releases carry in the model.                             *)
(***************************************************************************)
\* "show.s01e01.720p.H264.mkv"
FnH264_720 ==
    <<"s", "h", "o", "w", ".", "s", "0", "1", "e", "0", "1", ".", "7", "2", "0", "p",
    ".", "H", "2", "6", "4", ".", "m", "k", "v">>
\* "show.s01e01.1080p.H265.mkv"
FnH265_1080 ==
    <<"s", "h", "o", "w", ".", "s", "0", "1", "e", "0", "1", ".", "1", "0", "8", "0",
    "p", ".", "H", "2", "6", "5", ".", "m", "k", "v">>
\* "show.s01e01.480p.X264.mkv"
FnX264_480 ==
    <<"s", "h", "o", "w", ".", "s", "0", "1", "e", "0", "1", ".", "4", "8", "0", "p",
    ".", "X", "2", "6", "4", ".", "m", "k", "v">>
\* "a.mkv": neither a codec nor a resolution
FnPlain ==
    <<"a", ".", "m", "k", "v">>
\* "show.hevc.hdtv.mkv": both tokens, in lower case
FnHevcHdtv ==
    <<"s", "h", "o", "w", ".", "h", "e", "v", "c", ".", "h", "d", "t", "v", ".", "m",
    "k", "v">>
\* "show.x265.mkv": a codec without a resolution
FnX265Only ==
    <<"s", "h", "o", "w", ".", "x", "2", "6", "5", ".", "m", "k", "v">>

FileNames == {FnH264_720, FnH265_1080, FnX264_480, FnPlain, FnHevcHdtv, FnX265Only}

\* The test `codec in file_name and size in file_name` for every file name of the
\* model and every pair of tokens, computed once.
name_matches ==
    [f \in FileNames, ci \in 1..Len(Codecs), si \in 1..Len(Sizes) |->
        str_in(Codecs[ci], upper(f)) /\ str_in(Sizes[si], upper(f))]

\* Python's None.
None == [none |-> TRUE]

(***************************************************************************)
(* best_torrent_match                                                      *)
(***************************************************************************)
\* `for x in torrent_list: if codec in file_name and size in file_name: return`:
\* the index of the first release matching the pair, 0 when the loop ends.
first_match(list, ci, si) ==
    IF \E i \in 1..Len(list) : name_matches[list[i].filename, ci, si]
    THEN CHOOSE i \in 1..Len(list) :
            /\ name_matches[list[i].filename, ci, si]
            /\ \A j \in 1..(i - 1) : ~name_matches[list[j].filename, ci, si]
    ELSE 0

\* A selector whose loops run resolution-major instead of codec-major.
RECURSIVE match_loops_size_major(_, _, _)
match_loops_size_major(list, ci, si) ==
    IF si > Len(Sizes) THEN 0
    ELSE IF ci > Len(Codecs) THEN match_loops_size_major(list, 1, si + 1)
    ELSE LET i == first_match(list, ci, si)
         IN IF i # 0 THEN i ELSE match_loops_size_major(list, ci + 1, si)

\* The two outer loops, codec then size: the index of the release returned from
\* inside the loops, 0 when both loops end without a return.
RECURSIVE match_loops(_, _, _)
match_loops(list, ci, si) ==
    IF ci > Len(Codecs) THEN 0
    ELSE IF si > Len(Sizes) THEN match_loops(list, ci + 1, 1)
    ELSE LET i == first_match(list, ci, si)
         IN IF i # 0 THEN i ELSE match_loops(list, ci, si + 1)

\* sorted(torrent_list, key=itemgetter('seeds'), reverse=True): a stable sort, so
\* releases with equal seeds keep their input order. Insertion from the left: a
\* release goes behind every release already placed that has at least its seeds.
\* An insertion that puts a release in front of the releases with equal seeds, as a
\* sort that is not stable under reverse=True would.
RECURSIVE insert_desc_unstable(_, _)
insert_desc_unstable(x, sorted) ==
    IF sorted = <<>> THEN <<x>>
    ELSE IF Head(sorted).seeds > x.seeds
         THEN <<Head(sorted)>> \o insert_desc_unstable(x, Tail(sorted))
         ELSE <<x>> \o sorted

RECURSIVE insert_desc(_, _)
insert_desc(x, sorted) ==
    IF sorted = <<>> THEN <<x>>
    ELSE IF Head(sorted).seeds >= x.seeds
         THEN <<Head(sorted)>> \o insert_desc(x, Tail(sorted))
         ELSE <<x>> \o sorted

RECURSIVE sorted_by_seeds_desc(_)
sorted_by_seeds_desc(list) ==
    IF list = <<>> THEN <<>>
    ELSE insert_desc(list[Len(list)], sorted_by_seeds_desc(SubSeq(list, 1, Len(list) - 1)))

\* The dict best_torrent_match returns for a release.
picked(x) == [filename |-> x.filename, magnet_link |-> x.magnet_url]

\* A selector without the most-seeded fallback.
best_torrent_match_no_fallback(list) ==
    LET i == match_loops(list, 1, 1)
    IN IF list # <<>> /\ i # 0 THEN picked(list[i]) ELSE None

best_torrent_match(list) ==
    IF list = <<>> THEN None
    ELSE LET i == match_loops(list, 1, 1)
         IN IF i # 0 THEN picked(list[i])
            ELSE picked(sorted_by_seeds_desc(list)[1])

(***************************************************************************)
(* The selector on its own: every release list up to MaxLen, each release  *)
(* with its own magnet link.                                               *)
(***************************************************************************)
\* The list built from n (file name, seeds) pairs; release i carries magnet link i.
TorrentList(n, b) ==
    [i \in 1..n |-> [filename |-> b[i][1], magnet_url |-> i, seeds |-> b[i][2]]]

(***************************************************************************)
(* Documents. The document, its shows mapping and a show are functions. A  *)
(* dict whose keys come from the feed or from JSON (seasons, episodes) is  *)
(* the sequence of its items <<key, value>> in insertion order, with keys  *)
(* <<"int", n>> for the int n and <<"str", n>> for the str that spells n.  *)
(***************************************************************************)
EmptyDoc == <<>>

IntKey(n) == <<"int", n>>
StrKey(n) == <<"str", n>>

\* d[k] = v
dict_set(d, k, v) == [x \in DOMAIN d \cup {k} |-> IF x = k THEN v ELSE d[x]]

\* del d[k]
dict_del(d, k) == [x \in DOMAIN d \ {k} |-> d[x]]

\* The keys of a seasons or episodes dict.
keys_of(d) == {d[i][1] : i \in 1..Len(d)}

\* k in d
has_key(d, k) == \E i \in 1..Len(d) : d[i][1] = k

\* d[k], for a key that is in d
item(d, k) == d[CHOOSE i \in 1..Len(d) : d[i][1] = k][2]

\* d[k] = v: a new key goes to the end, a key that is there keeps its place.
set_item(d, k, v) ==
    IF has_key(d, k)
    THEN [i \in 1..Len(d) |-> IF d[i][1] = k THEN <<k, v>> ELSE d[i]]
    ELSE Append(d, <<k, v>>)

\* a == b for episodes dicts: the same keys with the same links, in any order.
same_episodes(a, b) ==
    /\ keys_of(a) = keys_of(b)
    /\ \A k \in keys_of(a) : item(a, k) = item(b, k)

\* a == b for seasons dicts.
same_seasons(a, b) ==
    /\ keys_of(a) = keys_of(b)
    /\ \A k \in keys_of(a) : same_episodes(item(a, k), item(b, k))

\* a == b for documents: a versioned document with its shows, or a flat one.
same_doc(a, b) ==
    /\ DOMAIN a = DOMAIN b
    /\ IF "shows" \in DOMAIN a
       THEN /\ a["version"] = b["version"]
            /\ DOMAIN a["shows"] = DOMAIN b["shows"]
            /\ \A id \in DOMAIN a["shows"] :
                  /\ [a["shows"][id] EXCEPT !.seasons = <<>>]
                        = [b["shows"][id] EXCEPT !.seasons = <<>>]
                  /\ same_seasons(a["shows"][id].seasons, b["shows"][id].seasons)
       ELSE \A id \in DOMAIN a : same_seasons(a[id], b[id])

\* 'shows' in cache_dict
has_shows(doc) == "shows" \in DOMAIN doc

ShowIds == {"111", "222"}

\* What get_imdb_meta returns for an id when the lookup succeeds.
imdb_meta(id) ==
    IF id = "111"
    THEN [title |-> "Active Show", url |-> "http://imdb.com/title/tt111"]
    ELSE IF id = "222"
    THEN [title |-> "Inactive Show", url |-> "http://imdb.com/title/tt222"]
    ELSE [title |-> "No meta title given", url |-> "No meta url given"]

Show(id, status, seasons) ==
    [url |-> imdb_meta(id).url, title |-> imdb_meta(id).title, status |-> status,
     seasons |-> seasons]

\* The document of test_main_skips_inactive_shows, with its version marker.
TestDoc ==
    [version |-> 2,
     shows |-> [id \in ShowIds |->
                  Show(id, IF id = "111" THEN "active" ELSE "inactive", <<>>)]]

\* A document of the layout before version 2: show id -> seasons.
FlatDoc == [id \in {"111"} |-> <<>>]

(***************************************************************************)
(* JSON. json.dump writes the members of a dict in insertion order and     *)
(* writes an int key as the str that spells it; json.load keeps, for a     *)
(* name that occurs twice, the last value. The text of a seasons or        *)
(* episodes dict is the sequence of its members <<name, value>>.           *)
(***************************************************************************)
\* str(k) for a key k, as json.dump writes it.
json_key(k) == StrKey(k[2])

\* json.dump of a dict: one member per item, in the order of the dict, the key as a
\* name.
dump_episodes(eps) == [i \in 1..Len(eps) |-> <<json_key(eps[i][1]), eps[i][2]>>]

dump_seasons(seasons) ==
    [i \in 1..Len(seasons) |-> <<json_key(seasons[i][1]), dump_episodes(seasons[i][2])>>]

\* The last member of name k.
last_member(m, k) ==
    CHOOSE i \in 1..Len(m) : m[i][1] = k /\ \A j \in (i + 1)..Len(m) : m[j][1] # k

\* The dict json.load builds from the members of an object: a name has the place of
\* its first member and the value of its last.
object_dict(m) ==
    LET firsts == {i \in 1..Len(m) : \A j \in 1..(i - 1) : m[j][1] # m[i][1]}
        nth(n) == CHOOSE i \in firsts : Cardinality({j \in firsts : j < i}) = n - 1
    IN [n \in 1..Cardinality(firsts) |->
            <<m[nth(n)][1], m[last_member(m, m[nth(n)][1])][2]>>]

load_episodes(m) == object_dict(m)

load_seasons(m) ==
    LET d == object_dict(m)
    IN [i \in 1..Len(d) |-> <<d[i][1], load_episodes(d[i][2])>>]

json_dump(doc) ==
    IF has_shows(doc)
    THEN [doc EXCEPT !["shows"] =
            [id \in DOMAIN doc["shows"] |->
                [doc["shows"][id] EXCEPT !["seasons"] = dump_seasons(@)]]]
    ELSE [id \in DOMAIN doc |-> dump_seasons(doc[id])]

\* json.load(f): the document a text reads as.
json_load(text) ==
    IF has_shows(text)
    THEN [text EXCEPT !["shows"] =
            [id \in DOMAIN text["shows"] |->
                [text["shows"][id] EXCEPT !["seasons"] = load_seasons(@)]]]
    ELSE [id \in DOMAIN text |-> load_seasons(text[id])]

(***************************************************************************)
(* read_cache and write_cache                                              *)
(***************************************************************************)
NoFile == [file |-> "absent"]
Truncated == [file |-> "truncated"]

\* read_cache(), for a file that is absent or holds a JSON text.
read_cache(file) == IF file = NoFile THEN EmptyDoc ELSE json_load(file)

\* How one write_cache(data) can go: the text is written; ~/.eztv is not a directory
\* and os.makedirs raises, outside the try, so that write_cache raises; open() raises
\* and the file stays as it was; or json.dump raises after open(..., 'w') has
\* truncated the file.
WriteOutcomes == {"written", "makedirs_raises", "open_raises", "dump_raises"}

\* The file after write_cache(data). The file is only ever read by json.load, so a
\* text is kept up to what json.load makes of it: of the texts that load as
\* json_dump(data) does, the one without a repeated name. Where ~/.eztv is not a
\* directory there is no file in it.
written_file(file, data, how) ==
    CASE how = "written" -> json_dump(json_load(json_dump(data)))
      [] how = "makedirs_raises" -> NoFile
      [] how = "open_raises" -> file
      [] how = "dump_raises" -> Truncated

\* write_cache(data), as a step of main.
WriteCache(data) ==
    \E how \in WriteOutcomes :
        /\ disk' = written_file(disk, data, how)
        /\ write_result' = CASE how = "written" -> "True"
                              [] how = "makedirs_raises" -> "raised"
                              [] OTHER -> "False"
        /\ writes' = writes + 1

\* Where the caller of write_cache goes on: at next, or nowhere when write_cache
\* raised.
after_write(next, raised) == IF write_result' = "raised" THEN raised ELSE next

NoWrite == UNCHANGED <<disk, write_result, writes>>

\* The command line with no option given. An option that argparse collects with
\* action='append' is None when absent and never an empty list: <<>> stands for None.
NoArgs ==
    [purge |-> <<>>, deactivate |-> <<>>, add |-> <<>>, only |-> <<>>,
     list |-> FALSE, list_downloaded |-> FALSE]

NoKey == <<"none", 0>>

\* The variables of a run of main before main has set them.
RunReset ==
    /\ cache_dict = EmptyDoc
    /\ loaded_doc = EmptyDoc
    /\ cache_update = FALSE
    /\ eztv_data = <<>>
    /\ shows_left = {}
    /\ loop_show = ""
    /\ seasons_left = {}
    /\ loop_season = NoKey
    /\ episodes_left = {}
    /\ sink = <<>>
    /\ writes = 0
    /\ write_result = "none"
    /\ effects = {}

\* main before it is called.
MainIdle ==
    /\ disk = NoFile
    /\ args = NoArgs
    /\ RunReset

\* No function has been called on a document.
OpsIdle ==
    /\ op = "none"
    /\ op_ids = <<>>
    /\ op_found = <<>>
    /\ op_before = EmptyDoc
    /\ op_result = None
    /\ op_log = {}

\* fetch_eztv_data before it is called.
FetchIdle ==
    /\ page_count = 0
    /\ page = 0
    /\ url_index = 0
    /\ attempt = 1
    /\ torrents = <<>>
    /\ page_log = <<>>
    /\ requested = {}
    /\ fail_kinds = {}
    /\ got_404 = {}
    /\ outcome = <<>>

InitSelect ==
    /\ pc = "select"
    /\ FetchIdle
    /\ MainIdle
    /\ OpsIdle
    /\ \E n \in 0..MaxLen : \E b \in [1..n -> FileNames \X (0..MaxSeeds)] :
            torrent_list = TorrentList(n, b)
    /\ best_link = None

SelectCall ==
    /\ pc = "select"
    /\ best_link' = best_torrent_match(torrent_list)
    /\ pc' = "selected"
    /\ UNCHANGED <<torrent_list, fetchVars, mainVars, opsVars>>

NextSelect == SelectCall

SpecSelect == InitSelect /\ [][NextSelect]_vars

(***************************************************************************)
(* fetch_eztv_data                                                         *)
(***************************************************************************)
API_URLS == <<"https://eztvx.to/api/get-torrents", "https://eztv.tf/api/get-torrents">>
REQUEST_MAX_RETRIES == 3

\* What requests.get can do: raise a transport error (a timeout, a refused
\* connection), or return a response with a status and a body. The bodies: text that
\* is not JSON, the JSON value null, a JSON object without 'torrents', and a JSON
\* object with a 'torrents' list.
TransportError == [error |-> "RequestException"]
Bodies == {"not_json", "json_null", "no_torrents", "torrents"}
Responses ==
    {[status_code |-> 200, body |-> b] : b \in Bodies}
        \cup {[status_code |-> c, body |-> "not_json"] : c \in {204, 404, 500}}
GetResults == {TransportError} \cup Responses

\* resp.raise_for_status(): raises HTTPError, a RequestException, for 4xx and 5xx.
raise_for_status_raises(resp) == resp.status_code >= 400 /\ resp.status_code < 600

\* The try block of one attempt ends in the except branch.
attempt_fails(r) == r = TransportError \/ raise_for_status_raises(r)

\* resp.json() raises ValueError.
json_raises(resp) == resp.body = "not_json"

\* `'torrents' in parsed_data` raises TypeError: None is not iterable.
in_parsed_raises(resp) == resp.body = "json_null"

\* The releases a page of the feed lists in the model: one release, whose link is
\* the page number.
PageReleases(p) ==
    << [imdb_id |-> "111", season |-> 1, episode |-> p + 1, filename |-> FnPlain,
        magnet_url |-> p, seeds |-> 1] >>

\* The next iteration of `for page in range(0, page_count)`, or the return after it.
NextPage(how) ==
    /\ outcome' = [outcome EXCEPT ![page] = how]
    /\ page' = page + 1
    /\ url_index' = 0
    /\ attempt' = 1
    /\ fail_kinds' = {}
    /\ pc' = IF page + 1 < page_count THEN "fetching" ELSE "fetched"

\* The loops stay on the current page.
SamePage(u, a, kinds) ==
    /\ url_index' = u
    /\ attempt' = a
    /\ fail_kinds' = kinds
    /\ pc' = "fetching"
    /\ UNCHANGED <<page, outcome>>

\* The code after the endpoint loop, for a response that is not None.
HandleResponse(resp) ==
    IF resp.status_code = 404
    THEN /\ pc' = "fetched"
         /\ outcome' = [outcome EXCEPT ![page] = "not_found"]
         /\ UNCHANGED <<page, url_index, attempt, fail_kinds, torrents>>
    ELSE IF resp.status_code # 200 THEN NextPage("skipped") /\ UNCHANGED torrents
    ELSE IF json_raises(resp) THEN NextPage("skipped") /\ UNCHANGED torrents
    ELSE IF in_parsed_raises(resp)
    THEN /\ pc' = "raised"
         /\ outcome' = [outcome EXCEPT ![page] = "raised"]
         /\ UNCHANGED <<page, url_index, attempt, fail_kinds, torrents>>
    ELSE IF resp.body = "torrents"
    THEN NextPage("ok") /\ torrents' = torrents \o PageReleases(page)
    ELSE NextPage("skipped") /\ UNCHANGED torrents

\* A retry loop that gives an endpoint REQUEST_MAX_RETRIES - 1 attempts.
HandleFailure_one_attempt_less(r) ==
    LET kinds == fail_kinds \cup
                    {IF r = TransportError THEN "transport" ELSE "http_status"}
    IN /\ UNCHANGED torrents
       /\ IF attempt < REQUEST_MAX_RETRIES - 1
          THEN SamePage(url_index, attempt + 1, kinds)
          ELSE IF url_index < Len(API_URLS) - 1
               THEN SamePage(url_index + 1, 1, kinds)
               ELSE NextPage(IF kinds = {"transport"} THEN "failed_transport"
                                                      ELSE "failed")

\* The except branch of one attempt, and the loop steps that follow it.
HandleFailure(r) ==
    LET kinds == fail_kinds \cup
                    {IF r = TransportError THEN "transport" ELSE "http_status"}
    IN /\ UNCHANGED torrents
       /\ IF attempt < REQUEST_MAX_RETRIES
          THEN SamePage(url_index, attempt + 1, kinds)
          ELSE IF url_index < Len(API_URLS) - 1
               THEN SamePage(url_index + 1, 1, kinds)
               ELSE NextPage(IF kinds = {"transport"} THEN "failed_transport"
                                                      ELSE "failed")

\* One requests.get(current_url, params = {'limit': 100, 'page': page}, ...) and what
\* it returned or raised.
Request(p, u, a, r) == [page |-> p, url_index |-> u, attempt |-> a, result |-> r]

\* `torrents = []` and the first evaluation of range(0, page_count).
FetchCall ==
    /\ pc = "fetch_call"
    /\ pc' = IF page_count > 0 THEN "fetching" ELSE "fetched"
    /\ torrents' = <<>>
    /\ page' = 0
    /\ url_index' = 0
    /\ attempt' = 1
    /\ UNCHANGED <<page_count, page_log, requested, fail_kinds, got_404, outcome>>
    /\ UNCHANGED <<selectVars, mainVars, opsVars>>

\* One requests.get and the code that runs until the next requests.get, the
\* return or the exception.
FetchRequest ==
    /\ pc = "fetching"
    /\ \E r \in GetResults :
        /\ requested' = requested \cup {page}
        /\ page_log' = IF page \in requested
                       THEN Append(page_log, Request(page, url_index, attempt, r))
                       ELSE << Request(page, url_index, attempt, r) >>
        /\ got_404' = IF r # TransportError /\ r.status_code = 404
                      THEN got_404 \cup {page} ELSE got_404
        /\ IF attempt_fails(r)
           THEN HandleFailure(r)
           ELSE HandleResponse(r)
    /\ UNCHANGED page_count
    /\ UNCHANGED <<selectVars, mainVars, opsVars>>

InitFetch ==
    /\ pc = "fetch_call"
    /\ page_count \in 0..MaxPages
    /\ page = 0
    /\ url_index = 0
    /\ attempt = 1
    /\ torrents = <<>>
    /\ page_log = <<>>
    /\ requested = {}
    /\ fail_kinds = {}
    /\ got_404 = {}
    /\ outcome = [p \in 0..(page_count - 1) |-> "pending"]
    /\ torrent_list = <<>>
    /\ best_link = None
    /\ MainIdle
    /\ OpsIdle

NextFetch == FetchCall \/ FetchRequest

SpecFetch == InitFetch /\ [][NextFetch]_vars

(***************************************************************************)
(* main                                                                    *)
(***************************************************************************)
\* The command lines of the model.
ArgChoices ==
    [purge : {<<>>, <<"222">>}, deactivate : {<<>>, <<"222">>},
     add : {<<>>, <<"vv222">>}, only : {<<>>, <<"111">>},
     list : BOOLEAN, list_downloaded : BOOLEAN]

\* x in ids, for a list of ids.
in_list(x, ids) == \E i \in 1..Len(ids) : ids[i] = x

\* re.sub(r'^(vv|)(\d+)$', r'\2', imdb_id, flags=re.IGNORECASE) on the ids of the
\* model: a leading "vv" before digits is dropped, anything else is left alone.
normalize_id(id) == IF id = "vv222" THEN "222" ELSE id

\* The stages of main after read_cache, in the order of its if statements, and
\* whether the command line makes main enter each.
Stages == <<"purge", "deactivate", "add", "list_downloaded", "list", "fetch">>

stage_entered(stage, a) ==
    CASE stage = "purge" -> a.purge # <<>>
      [] stage = "deactivate" -> a.deactivate # <<>>
      [] stage = "add" -> a.add # <<>>
      [] stage = "list_downloaded" -> a.list_downloaded
      [] stage = "list" -> a.list
      [] stage = "fetch" -> TRUE

\* The first stage main enters after stage number n (0: after read_cache).
stage_after(n, a) ==
    Stages[CHOOSE i \in (n + 1)..Len(Stages) :
              /\ stage_entered(Stages[i], a)
              /\ \A j \in (n + 1)..(i - 1) : ~stage_entered(Stages[j], a)]

\* A purge_shows that stops after the first id.
purged_first_only(shows, ids) ==
    IF ids = <<>> THEN shows
    ELSE IF Head(ids) \in DOMAIN shows THEN dict_del(shows, Head(ids)) ELSE shows

\* purge_shows: the shows mapping after the loop of deletions.
RECURSIVE purged(_, _)
purged(shows, ids) ==
    IF ids = <<>> THEN shows
    ELSE purged(IF Head(ids) \in DOMAIN shows THEN dict_del(shows, Head(ids)) ELSE shows,
                Tail(ids))

\* remove_shows: the shows mapping after the loop.
RECURSIVE deactivated(_, _)
deactivated(shows, ids) ==
    IF ids = <<>> THEN shows
    ELSE deactivated(IF Head(ids) \in DOMAIN shows
                     THEN [shows EXCEPT ![Head(ids)].status = "inactive"]
                     ELSE shows,
                     Tail(ids))

\* An add_shows that inserts the show also when the id is in the mapping.
RECURSIVE added_replacing(_, _, _)
added_replacing(shows, ids, found) ==
    IF ids = <<>> THEN shows
    ELSE LET id == normalize_id(Head(ids))
             next == IF ~Head(found) THEN shows
                     ELSE dict_set(shows, id, Show(id, "active", <<>>))
         IN added_replacing(next, Tail(ids), Tail(found))

\* add_shows: the shows mapping after the loop; found[i] tells whether
\* get_imdb_meta succeeds for the i-th id, should it be called.
RECURSIVE added(_, _, _)
added(shows, ids, found) ==
    IF ids = <<>> THEN shows
    ELSE LET id == normalize_id(Head(ids))
             next == IF id \in DOMAIN shows THEN shows
                     ELSE IF ~Head(found) THEN shows
                     ELSE dict_set(shows, id, Show(id, "active", <<>>))
         IN added(next, Tail(ids), Tail(found))

\* add_shows calls get_imdb_meta: some id is not in the shows mapping.
looked_up(shows, ids) == \E i \in 1..Len(ids) : normalize_id(ids[i]) \notin DOMAIN shows

\* The releases of the model's feeds: release i of a feed is for one of these
\* (show, episode) pairs, in season 1.
FeedEpisodes == {<<"111", 1>>, <<"111", 2>>, <<"222", 1>>}

FeedFileName(i) == IF i % 2 = 1 THEN FnPlain ELSE FnH265_1080

\* A feed of n releases. The feed carries season and episode either all as ints or
\* all as strs (type); the link of a release names its show, episode and file.
Feed(n, b, type) ==
    [i \in 1..n |->
        [imdb_id |-> b[i][1], season |-> <<type, 1>>, episode |-> <<type, b[i][2]>>,
         filename |-> FeedFileName(i),
         magnet_url |-> <<b[i][1], b[i][2], IF i % 2 = 1 THEN "plain" ELSE "h265">>,
         seeds |-> 1]]

\* set([x['season'] for x in eztv_data if x['imdb_id'] == imdb_id])
seasons_in(data, id) ==
    {data[i].season : i \in {j \in 1..Len(data) : data[j].imdb_id = id}}

\* set([x['episode'] for x in eztv_data if x['imdb_id'] == imdb_id and x['season'] == season])
episodes_in(data, id, season) ==
    {data[i].episode :
        i \in {j \in 1..Len(data) : data[j].imdb_id = id /\ data[j].season = season}}

\* torrents_by_key[(imdb_id, season, episode)]
torrents_by_key(data, id, season, episode) ==
    SelectSeq(data, LAMBDA x : x.imdb_id = id /\ x.season = season /\ x.episode = episode)

\* The show the loop visits next. A dict is iterated in insertion order: "111" is in
\* the documents of the model from the start, "222" is there after it or added later.
next_show(left) == IF "111" \in left THEN "111" ELSE CHOOSE id \in left : TRUE

\* A show loop that does not look at the status.
show_skipped_whatever_status(doc, id, only) == only # <<>> /\ ~in_list(id, only)

\* The `continue`s at the head of the show loop.
show_skipped(doc, id, only) ==
    \/ doc["shows"][id].status # "active"
    \/ only # <<>> /\ ~in_list(id, only)

Ended == {"done", "crashed", "exit1"}

\* The process has ended; what it held in memory is gone, the file stays.
EndRun ==
    /\ pc \in Ended
    /\ pc' = "idle"
    /\ args' = NoArgs
    /\ cache_dict' = EmptyDoc
    /\ loaded_doc' = EmptyDoc
    /\ cache_update' = FALSE
    /\ eztv_data' = <<>>
    /\ shows_left' = {}
    /\ loop_show' = ""
    /\ seasons_left' = {}
    /\ loop_season' = NoKey
    /\ episodes_left' = {}
    /\ sink' = <<>>
    /\ writes' = 0
    /\ write_result' = "none"
    /\ effects' = {}
    /\ UNCHANGED <<disk, selectVars, fetchVars, opsVars>>

\* The process is started with a command line.
StartRun ==
    /\ pc = "idle"
    /\ pc' = "connect"
    /\ args' \in ArgChoices
    /\ UNCHANGED <<disk, cache_dict, loaded_doc, cache_update, eztv_data, shows_left,
                   loop_show, seasons_left, loop_season, episodes_left, sink, writes,
                   write_result, effects, selectVars, fetchVars, opsVars>>

\* A main that reads the cache before it connects.
Connect_after_read_cache ==
    /\ pc = "connect"
    /\ \E connected \in BOOLEAN : pc' = IF connected THEN "read" ELSE "exit1"
    /\ disk # Truncated
    /\ cache_dict' = read_cache(disk)
    /\ effects' = effects \cup {"read_cache"}
    /\ UNCHANGED <<disk, args, loaded_doc, cache_update, eztv_data, shows_left,
                   loop_show, seasons_left, loop_season, episodes_left, sink, writes,
                   write_result, selectVars, fetchVars, opsVars>>

\* transmissionrpc.Client(...): it connects, or raises and main calls sys.exit(1).
Connect ==
    /\ pc = "connect"
    /\ \E connected \in BOOLEAN : pc' = IF connected THEN "read" ELSE "exit1"
    /\ UNCHANGED <<selectVars, fetchVars, mainVars, opsVars>>

RunFrame ==
    UNCHANGED <<args, loaded_doc, eztv_data, shows_left, loop_show, seasons_left,
                loop_season, episodes_left, sink, selectVars, fetchVars, opsVars>>

\* cache_dict = read_cache(); cache_update = False. json.load raises on a
\* truncated file.
ReadCache ==
    /\ pc = "read"
    /\ IF disk = Truncated
       THEN pc' = "crashed" /\ UNCHANGED <<cache_dict, loaded_doc>>
       ELSE /\ cache_dict' = read_cache(disk)
            /\ loaded_doc' = read_cache(disk)
            /\ pc' = stage_after(0, args)
    /\ effects' = effects \cup {"read_cache"}
    /\ UNCHANGED <<disk, args, cache_update, eztv_data, shows_left, loop_show,
                   seasons_left, loop_season, episodes_left, sink, writes,
                   write_result, selectVars, fetchVars, opsVars>>

\* if args.purge: purge_shows(cache_dict, args.purge), which writes the cache if it
\* deleted a show, and then main returns. cache_dict['shows'] raises KeyError on a
\* document without 'shows'.
Purge ==
    /\ pc = "purge"
    /\ IF ~has_shows(cache_dict)
       THEN pc' = "crashed" /\ UNCHANGED cache_dict /\ NoWrite
       ELSE LET new == [cache_dict EXCEPT !["shows"] = purged(@, args.purge)]
                purged_something == \E i \in 1..Len(args.purge) :
                                        args.purge[i] \in DOMAIN cache_dict["shows"]
            IN /\ cache_dict' = new
               /\ IF purged_something
                  THEN WriteCache(new) /\ pc' = after_write("done", "crashed")
                  ELSE NoWrite /\ pc' = stage_after(1, args)
    /\ UNCHANGED <<cache_update, effects>>
    /\ RunFrame

\* if args.deactivate: remove_shows, write_cache, return.
Deactivate ==
    /\ pc = "deactivate"
    /\ IF ~has_shows(cache_dict)
       THEN pc' = "crashed" /\ UNCHANGED cache_dict /\ NoWrite
       ELSE LET new == [cache_dict EXCEPT !["shows"] = deactivated(@, args.deactivate)]
            IN /\ cache_dict' = new
               /\ WriteCache(new)
               /\ pc' = after_write("done", "crashed")
    /\ UNCHANGED <<cache_update, effects>>
    /\ RunFrame

\* if args.add: cache_dict = add_shows(cache_dict, args.add); cache_update = True.
Add ==
    /\ pc = "add"
    /\ IF ~has_shows(cache_dict)
       THEN pc' = "crashed" /\ UNCHANGED <<cache_dict, cache_update, effects>>
       ELSE \E found \in [1..Len(args.add) -> BOOLEAN] :
               /\ cache_dict' = [cache_dict EXCEPT !["shows"] = added(@, args.add, found)]
               /\ effects' = IF looked_up(cache_dict["shows"], args.add)
                             THEN effects \cup {"get_imdb_meta"} ELSE effects
               /\ cache_update' = TRUE
               /\ pc' = stage_after(3, args)
    /\ NoWrite
    /\ RunFrame

\* if args.list_downloaded: the document is logged, return.
ListDownloaded ==
    /\ pc = "list_downloaded"
    /\ pc' = "done"
    /\ UNCHANGED <<selectVars, fetchVars, mainVars, opsVars>>

\* if args.list: list_shows(cache_dict), return.
List ==
    /\ pc = "list"
    /\ pc' = "done"
    /\ UNCHANGED <<selectVars, fetchVars, mainVars, opsVars>>

\* eztv_data = fetch_eztv_data(args.page_count), whose result is any feed of the
\* model, or which raises; then the head of `for imdb_id in cache_dict['shows']`,
\* which raises KeyError on a document without 'shows'.
Fetch ==
    /\ pc = "fetch"
    /\ \/ /\ pc' = "crashed"
          /\ UNCHANGED <<eztv_data, shows_left>>
       \/ \E n \in 0..MaxFeed : \E b \in [1..n -> FeedEpisodes] : \E type \in {"int", "str"} :
            /\ eztv_data' = Feed(n, b, type)
            /\ IF has_shows(cache_dict)
               THEN pc' = "shows" /\ shows_left' = DOMAIN cache_dict["shows"]
               ELSE pc' = "crashed" /\ UNCHANGED shows_left
    /\ effects' = effects \cup {"fetch_eztv_data"}
    /\ UNCHANGED <<disk, args, cache_dict, loaded_doc, cache_update, loop_show,
                   seasons_left, loop_season, episodes_left, sink, writes,
                   write_result, selectVars, fetchVars, opsVars>>

\* One iteration of the show loop, up to the season loop: the show is skipped, or
\* its seasons in the feed are collected.
DownloadShow ==
    /\ pc = "shows"
    /\ shows_left # {}
    /\ LET id == next_show(shows_left) IN
        /\ shows_left' = shows_left \ {id}
        /\ loop_show' = id
        /\ IF show_skipped(cache_dict, id, args.only)
           THEN /\ pc' = "shows"
                /\ UNCHANGED seasons_left
           ELSE /\ seasons_left' = seasons_in(eztv_data, id)
                /\ pc' = IF seasons_in(eztv_data, id) = {} THEN "shows" ELSE "seasons"
    /\ UNCHANGED <<disk, args, cache_dict, loaded_doc, cache_update, eztv_data,
                   loop_season, episodes_left, sink, writes, write_result, effects,
                   selectVars, fetchVars, opsVars>>

\* One iteration of the season loop, up to the episode loop: the season gets its
\* entry if it has none, and its episodes in the feed are collected.
DownloadSeason ==
    /\ pc = "seasons"
    /\ \E season \in seasons_left :
        /\ seasons_left' = seasons_left \ {season}
        /\ loop_season' = season
        /\ cache_dict' =
              IF has_key(cache_dict["shows"][loop_show].seasons, season)
              THEN cache_dict
              ELSE [cache_dict EXCEPT !["shows"][loop_show].seasons =
                                            set_item(@, season, <<>>)]
        /\ episodes_left' = episodes_in(eztv_data, loop_show, season)
        /\ pc' = "episodes"
    /\ UNCHANGED <<disk, args, loaded_doc, cache_update, eztv_data, shows_left,
                   loop_show, sink, writes, write_result, effects, selectVars, fetchVars, opsVars>>

\* Where the loops go on after an iteration of the episode loop.
after_episode(eps_left) ==
    IF eps_left # {} THEN "episodes"
    ELSE IF seasons_left # {} THEN "seasons" ELSE "shows"

\* An episode loop that records the link before it hands it to tc.add_torrent.
DownloadEpisode_record_first ==
    /\ pc = "episodes"
    /\ \E episode \in episodes_left :
        LET recorded == item(cache_dict["shows"][loop_show].seasons, loop_season)
            best == best_torrent_match(
                        torrents_by_key(eztv_data, loop_show, loop_season, episode))
        IN /\ episodes_left' = episodes_left \ {episode}
           /\ IF has_key(recorded, episode) \/ best = None
              THEN /\ pc' = after_episode(episodes_left \ {episode})
                   /\ UNCHANGED <<cache_dict, cache_update, sink>>
              ELSE /\ cache_dict' =
                         [cache_dict EXCEPT
                             !["shows"][loop_show].seasons =
                                 set_item(@, loop_season,
                                     set_item(recorded, episode, best.magnet_link))]
                   /\ cache_update' = TRUE
                   /\ \E accepted \in BOOLEAN :
                         IF accepted
                         THEN /\ sink' = Append(sink, [imdb_id |-> loop_show,
                                                       season |-> loop_season,
                                                       episode |-> episode,
                                                       link |-> best.magnet_link])
                              /\ pc' = after_episode(episodes_left \ {episode})
                         ELSE pc' = "crashed" /\ UNCHANGED sink
    /\ UNCHANGED <<disk, args, loaded_doc, eztv_data, shows_left, loop_show,
                   seasons_left, loop_season, writes, write_result, effects, selectVars,
                   fetchVars, opsVars>>

\* One iteration of the episode loop: for an episode the season's entry does not
\* hold, the best release is selected, its link is handed to tc.add_torrent, which
\* may raise, and is recorded.
DownloadEpisode ==
    /\ pc = "episodes"
    /\ \E episode \in episodes_left :
        LET recorded == item(cache_dict["shows"][loop_show].seasons, loop_season)
            best == best_torrent_match(
                        torrents_by_key(eztv_data, loop_show, loop_season, episode))
        IN /\ episodes_left' = episodes_left \ {episode}
           /\ IF has_key(recorded, episode) \/ best = None
              THEN /\ pc' = after_episode(episodes_left \ {episode})
                   /\ UNCHANGED <<cache_dict, cache_update, sink>>
              ELSE \E accepted \in BOOLEAN :
                     IF accepted
                     THEN /\ sink' = Append(sink, [imdb_id |-> loop_show,
                                                   season |-> loop_season,
                                                   episode |-> episode,
                                                   link |-> best.magnet_link])
                          /\ cache_dict' =
                                [cache_dict EXCEPT
                                    !["shows"][loop_show].seasons =
                                        set_item(@, loop_season,
                                            set_item(recorded, episode,
                                                     best.magnet_link))]
                          /\ cache_update' = TRUE
                          /\ pc' = after_episode(episodes_left \ {episode})
                     ELSE /\ pc' = "crashed"
                          /\ UNCHANGED <<cache_dict, cache_update, sink>>
    /\ UNCHANGED <<disk, args, loaded_doc, eztv_data, shows_left, loop_show,
                   seasons_left, loop_season, writes, write_result, effects, selectVars,
                   fetchVars, opsVars>>

\* An end of main that writes the cache only when the pass recorded an episode.
Finish_unless_only_added ==
    /\ pc = "shows"
    /\ shows_left = {}
    /\ IF sink # <<>> THEN WriteCache(cache_dict) ELSE NoWrite
    /\ pc' = after_write("done", "crashed")
    /\ UNCHANGED <<cache_dict, cache_update, effects>>
    /\ RunFrame

\* After the show loop: the messages are logged, and `if cache_update:
\* write_cache(cache_dict)`.
Finish ==
    /\ pc = "shows"
    /\ shows_left = {}
    /\ IF cache_update THEN WriteCache(cache_dict) ELSE NoWrite
    /\ pc' = after_write("done", "crashed")
    /\ UNCHANGED <<cache_dict, cache_update, effects>>
    /\ RunFrame

\* Seasons as json.load returns them: season "1" with episode "1".
SeasonsRead == << <<StrKey(1), << <<StrKey(1), <<"111", 1, "plain">> >> >> >> >>

\* A document of the layout before version 2 with two shows.
FlatDoc2 == [id \in ShowIds |-> IF id = "111" THEN SeasonsRead ELSE <<>>]

\* What get_cache() of cache_convert.py returns: {} where there is no pickle file,
\* or the unpickled document, which has the layout before version 2.
get_cache == {EmptyDoc, FlatDoc, FlatDoc2}

\* python cache_convert.py, run between two runs of main: write_cache of
\* cache_convert.py writes what get_cache returned to the file main reads, with the
\* same makedirs, open(..., 'w') and json.dump as write_cache of eztv.py and no
\* try around them, so that each failure ends the script.
CacheConvert ==
    /\ pc = "idle"
    /\ \E cache_date \in get_cache, how \in WriteOutcomes :
          disk' = written_file(disk, cache_date, how)
    /\ UNCHANGED <<pc, args, cache_dict, loaded_doc, cache_update, eztv_data,
                   shows_left, loop_show, seasons_left, loop_season, episodes_left,
                   sink, writes, write_result, effects, selectVars, fetchVars,
                   opsVars>>

\* The cache files the first run can find: none, one of the old layout, and the
\* document of the tests.
InitialFiles == {NoFile, json_dump(FlatDoc), json_dump(TestDoc)}

Init ==
    /\ pc = "idle"
    /\ disk \in InitialFiles
    /\ args = NoArgs
    /\ RunReset
    /\ torrent_list = <<>>
    /\ best_link = None
    /\ FetchIdle
    /\ OpsIdle

Next ==
    \/ StartRun
    \/ EndRun
    \/ Connect
    \/ ReadCache
    \/ Purge
    \/ Deactivate
    \/ Add
    \/ ListDownloaded
    \/ List
    \/ Fetch
    \/ DownloadShow
    \/ DownloadSeason
    \/ DownloadEpisode
    \/ Finish
    \/ CacheConvert

Spec == Init /\ [][Next]_vars

(***************************************************************************)
(* convert_cache, add_shows, remove_shows and purge_shows, each called on  *)
(* a document of a bounded set.                                            *)
(***************************************************************************)
\* A convert_cache that converts every document up to the current version.
convert_cache_up_to_current(doc, found) ==
    IF "version" \notin DOMAIN doc \/ doc["version"] <= 2
    THEN [version |-> 2,
          shows |-> [show \in DOMAIN doc |->
                        IF found[show]
                        THEN [url |-> imdb_meta(show).url, title |-> imdb_meta(show).title,
                              status |-> "active", seasons |-> doc[show]]
                        ELSE [status |-> "active", seasons |-> doc[show]]]]
    ELSE None

\* convert_cache(cache_dict); found[show] tells whether get_imdb_meta(show) succeeds.
\* Every top-level key of the old document becomes a show, and url and title are
\* set only when the lookup succeeds.
convert_cache(doc, found) ==
    IF "version" \notin DOMAIN doc \/ doc["version"] < 2
    THEN [version |-> 2,
          shows |-> [show \in DOMAIN doc |->
                        IF found[show]
                        THEN [url |-> imdb_meta(show).url, title |-> imdb_meta(show).title,
                              status |-> "active", seasons |-> doc[show]]
                        ELSE [status |-> "active", seasons |-> doc[show]]]]
    ELSE None

\* A document of the layout before version 2 with one show under a version marker
\* below the current version.
OldMarkedDoc == [k \in {"version", "111"} |-> IF k = "version" THEN 1 ELSE SeasonsRead]

\* The document of the tests after an episode of show 111 was recorded.
TestDocRecorded == [TestDoc EXCEPT !["shows"]["111"].seasons = SeasonsRead]

OpsDocs == {EmptyDoc, FlatDoc, FlatDoc2, OldMarkedDoc, TestDoc, TestDocRecorded}

\* The lists of ids of the model.
OpsIdLists ==
    UNION {[1..n -> {"111", "222", "333", "vv222"}] : n \in 1..MaxIds}

\* purge_shows: purged_something
purged_something(shows, ids) == \E i \in 1..Len(ids) : ids[i] \in DOMAIN shows

\* The frame of a call: the variables of main, of fetch_eztv_data and of
\* best_torrent_match that the four functions do not touch.
OpsFrame ==
    UNCHANGED <<args, loaded_doc, cache_update, eztv_data, shows_left, loop_show,
                seasons_left, loop_season, episodes_left, sink, effects, selectVars,
                fetchVars>>

\* Entry of a call of op on cache_dict with ids.
OpsEnter(name, ids, found) ==
    /\ pc = "ops"
    /\ op = "none"
    /\ op' = name
    /\ op_ids' = ids
    /\ op_found' = found
    /\ op_before' = cache_dict

\* cache_dict['shows'] raises KeyError.
OpsKeyError ==
    /\ pc' = "ops_raised"
    /\ op_result' = None
    /\ op_log' = {}
    /\ UNCHANGED cache_dict
    /\ NoWrite

\* add_shows(cache_dict, shows): mutates cache_dict and returns it.
AddCall ==
    \E ids \in OpsIdLists : \E found \in [1..Len(ids) -> BOOLEAN] :
        /\ OpsEnter("add_shows", ids, found)
        /\ IF ~has_shows(cache_dict)
           THEN OpsKeyError
           ELSE LET new == [cache_dict EXCEPT !["shows"] = added(@, ids, found)]
                IN /\ cache_dict' = new
                   /\ op_result' = new
                   /\ op_log' = {}
                   /\ pc' = "ops_returned"
                   /\ NoWrite
        /\ OpsFrame

\* remove_shows(cache_dict, shows): mutates cache_dict and returns it.
RemoveCall ==
    \E ids \in OpsIdLists :
        /\ OpsEnter("remove_shows", ids, <<>>)
        /\ IF ~has_shows(cache_dict)
           THEN OpsKeyError
           ELSE LET new == [cache_dict EXCEPT !["shows"] = deactivated(@, ids)]
                IN /\ cache_dict' = new
                   /\ op_result' = new
                   /\ op_log' = {}
                   /\ pc' = "ops_returned"
                   /\ NoWrite
        /\ OpsFrame

\* A purge_shows that leaves the write to its caller.
PurgeCall_without_write ==
    \E ids \in OpsIdLists :
        /\ OpsEnter("purge_shows", ids, <<>>)
        /\ IF ~has_shows(cache_dict)
           THEN OpsKeyError
           ELSE /\ cache_dict' = [cache_dict EXCEPT !["shows"] = purged(@, ids)]
                /\ op_result' = purged_something(cache_dict["shows"], ids)
                /\ pc' = "ops_returned"
                /\ op_log' = {}
                /\ NoWrite
        /\ OpsFrame

\* purge_shows(cache_dict, shows): deletes, and if it deleted a show calls
\* write_cache, logs "Cache updated" and returns purged_something.
PurgeCall ==
    \E ids \in OpsIdLists :
        /\ OpsEnter("purge_shows", ids, <<>>)
        /\ IF ~has_shows(cache_dict)
           THEN OpsKeyError
           ELSE LET new == [cache_dict EXCEPT !["shows"] = purged(@, ids)]
                IN /\ cache_dict' = new
                   /\ IF purged_something(cache_dict["shows"], ids)
                      THEN /\ WriteCache(new)
                           /\ pc' = after_write("ops_returned", "ops_raised")
                           /\ op_result' = IF write_result' = "raised" THEN None ELSE TRUE
                           /\ op_log' = CASE write_result' = "True" -> {"Cache updated"}
                                          [] write_result' = "raised" -> {}
                                          [] OTHER -> {"Failed to write cache",
                                                       "Cache updated"}
                      ELSE /\ NoWrite
                           /\ pc' = "ops_returned"
                           /\ op_result' = FALSE
                           /\ op_log' = {}
        /\ OpsFrame

\* convert_cache(cache_dict): returns the converted document or None; cache_dict
\* itself is not changed. It is called on a document as loaded, or on the document
\* a conversion returned.
ConvertCall ==
    /\ pc = "ops"
    /\ op \in {"none", "converted"}
    /\ \E found \in [DOMAIN cache_dict -> BOOLEAN] :
          /\ op_result' = convert_cache(cache_dict, found)
          /\ op_found' = found
    /\ op' = "convert_cache"
    /\ op_ids' = <<>>
    /\ op_before' = cache_dict
    /\ op_log' = {}
    /\ pc' = "ops_returned"
    /\ UNCHANGED cache_dict
    /\ NoWrite
    /\ OpsFrame

\* The document convert_cache returned becomes the document in memory.
ConvertReturn ==
    /\ pc = "ops_returned"
    /\ op = "convert_cache"
    /\ op_result # None
    /\ cache_dict' = op_result
    /\ op' = "converted"
    /\ pc' = "ops"
    /\ UNCHANGED <<op_ids, op_found, op_before, op_result, op_log>>
    /\ NoWrite
    /\ OpsFrame

InitOps ==
    /\ pc = "ops"
    /\ cache_dict \in OpsDocs
    /\ disk = IF has_shows(cache_dict) THEN json_dump(cache_dict) ELSE NoFile
    /\ args = NoArgs
    /\ loaded_doc = EmptyDoc
    /\ cache_update = FALSE
    /\ eztv_data = <<>>
    /\ shows_left = {}
    /\ loop_show = ""
    /\ seasons_left = {}
    /\ loop_season = NoKey
    /\ episodes_left = {}
    /\ sink = <<>>
    /\ writes = 0
    /\ write_result = "none"
    /\ effects = {}
    /\ torrent_list = <<>>
    /\ best_link = None
    /\ FetchIdle
    /\ OpsIdle

NextOps ==
    \/ AddCall
    \/ RemoveCall
    \/ PurgeCall
    \/ ConvertCall
    \/ ConvertReturn

SpecOps == InitOps /\ [][NextOps]_vars

(***************************************************************************)
(* Properties of best_torrent_match.                                       *)
(***************************************************************************)
\* Two letters that differ at most in case.
SameLetter(a, b) ==
    \/ a = b
    \/ a \in DOMAIN LowerToUpper /\ LowerToUpper[a] = b
    \/ b \in DOMAIN LowerToUpper /\ LowerToUpper[b] = a

\* tok occurs in s, letters compared without regard to case.
ContainsCI(tok, s) ==
    \E i \in 1..(Len(s) - Len(tok) + 1) :
        \A k \in 1..Len(tok) : SameLetter(s[i + k - 1], tok[k])

\* Which file names contain both tokens of which pair, case-insensitively.
HasPair ==
    [f \in FileNames, ci \in 1..Len(Codecs), si \in 1..Len(Sizes) |->
        ContainsCI(Codecs[ci], f) /\ ContainsCI(Sizes[si], f)]

PairIndexes == (1..Len(Codecs)) \X (1..Len(Sizes))

\* The place of a pair in the preference order: codec first, then resolution.
PairRank(p) == (p[1] - 1) * Len(Sizes) + p[2]

MatchedPairs(list) ==
    {p \in PairIndexes : \E i \in 1..Len(list) : HasPair[list[i].filename, p[1], p[2]]}

EarliestPair(list) ==
    CHOOSE p \in MatchedPairs(list) : \A q \in MatchedPairs(list) : PairRank(p) <= PairRank(q)

\* The first release, in input order, that satisfies P.
FirstIndex(list, P(_)) ==
    CHOOSE i \in 1..Len(list) : P(list[i]) /\ \A j \in 1..(i - 1) : ~P(list[j])

MaxSeedsOf(list) ==
    CHOOSE m \in {list[i].seeds : i \in 1..Len(list)} :
        \A i \in 1..Len(list) : list[i].seeds <= m

\* C1: when some file name contains a codec and a resolution, the release returned
\* is the first one in input order that matches the earliest matched pair of the
\* codec-major preference order; no release that matches only later pairs, wherever
\* it stands in the list, is returned in its place. The lists of the specification
\* are all the lists up to MaxLen, so every order of every list is among them.
C1_EarliestPairFirstRelease ==
    (pc = "selected" /\ MatchedPairs(torrent_list) # {}) =>
        LET p == EarliestPair(torrent_list)
            InPair(x) == HasPair[x.filename, p[1], p[2]]
        IN best_link = picked(torrent_list[FirstIndex(torrent_list, InPair)])

\* C1 happens: the first release matches only a later pair, two later releases match
\* the earliest pair, and the first of those two is returned.
C1_Witness ==
    /\ pc = "selected"
    /\ Len(torrent_list) = 3
    /\ torrent_list[1].filename = FnH264_720
    /\ torrent_list[2].filename = FnH265_1080
    /\ torrent_list[3].filename = FnH265_1080
    /\ torrent_list[1].seeds > torrent_list[2].seeds
    /\ best_link = [filename |-> FnH265_1080, magnet_link |-> 2]

\* C2: when no file name contains both a codec and a resolution, the release
\* returned has the maximum seed count, and is the first such in input order.
C2_FallbackFirstMostSeeded ==
    (pc = "selected" /\ torrent_list # <<>> /\ MatchedPairs(torrent_list) = {}) =>
        LET m == MaxSeedsOf(torrent_list)
            IsMax(x) == x.seeds = m
        IN best_link = picked(torrent_list[FirstIndex(torrent_list, IsMax)])

\* C2 happens: three releases without a matching pair, the last two sharing the
\* maximum, and the second is returned.
C2_Witness ==
    /\ pc = "selected"
    /\ Len(torrent_list) = 3
    /\ MatchedPairs(torrent_list) = {}
    /\ torrent_list[1].seeds < torrent_list[2].seeds
    /\ torrent_list[2].seeds = torrent_list[3].seeds
    /\ best_link = picked(torrent_list[2])

\* C3: best_torrent_match returns None exactly on the empty list, and on every
\* other list a release of that list, as its file name and link.
C3_TotalAndFromInput ==
    pc = "selected" =>
        /\ (best_link = None) <=> (torrent_list = <<>>)
        /\ torrent_list # <<>> =>
              \E i \in 1..Len(torrent_list) : best_link = picked(torrent_list[i])

\* C3 happens: the empty list has been answered with None, without a release.
C3_Witness ==
    /\ pc = "selected"
    /\ torrent_list = <<>>
    /\ best_link = None

(***************************************************************************)
(* Properties of the cache and of main.                                    *)
(***************************************************************************)
\* if 'version' not in cache_dict or cache_dict['version'] < 2
CurrentVersion == 2

\* doc holds a link under show id, season key ks and episode key ke.
HasLink(doc, id, ks, ke) ==
    /\ has_shows(doc)
    /\ id \in DOMAIN doc["shows"]
    /\ has_key(doc["shows"][id].seasons, ks)
    /\ has_key(item(doc["shows"][id].seasons, ks), ke)

\* That link.
LinkOf(doc, id, ks, ke) == item(item(doc["shows"][id].seasons, ks), ke)

\* The episode number en of season number sn of show id has an entry in doc,
\* whichever way its keys are typed.
EpisodePresent(doc, id, sn, en) ==
    /\ has_shows(doc)
    /\ id \in DOMAIN doc["shows"]
    /\ \E ks \in keys_of(doc["shows"][id].seasons) :
        /\ ks[2] = sn
        /\ \E ke \in keys_of(item(doc["shows"][id].seasons, ks)) : ke[2] = en

\* C4: an episode that the document loaded at the start of the run holds is not
\* submitted to the download sink again, and the document a run writes holds, for
\* every such episode of a show it still tracks, the link that was there.
C4_RecordedEpisodeNotRepeated ==
    /\ \A i \in 1..Len(sink) :
          ~EpisodePresent(loaded_doc, sink[i].imdb_id, sink[i].season[2],
                          sink[i].episode[2])
    /\ (write_result = "True" /\ has_shows(loaded_doc)) =>
          \A id \in DOMAIN loaded_doc["shows"] \cap DOMAIN read_cache(disk)["shows"] :
              \A ks \in keys_of(loaded_doc["shows"][id].seasons) :
                  \A ke \in keys_of(item(loaded_doc["shows"][id].seasons, ks)) :
                      /\ HasLink(read_cache(disk), id, ks, ke)
                      /\ LinkOf(read_cache(disk), id, ks, ke)
                            = LinkOf(loaded_doc, id, ks, ke)

\* The status of show id in the document of the run.
StatusOf(id) ==
    IF has_shows(cache_dict) /\ id \in DOMAIN cache_dict["shows"]
    THEN cache_dict["shows"][id].status
    ELSE "untracked"

\* C5: no link submitted to the download sink is the link of a release of the feed
\* whose show has status inactive.
C5_InactiveNeverSubmitted ==
    \A i \in 1..Len(sink) : \A j \in 1..Len(eztv_data) :
        eztv_data[j].magnet_url = sink[i].link => StatusOf(eztv_data[j].imdb_id) # "inactive"

\* C5 happens: the pass has ended with show 222 inactive, the feed held a release
\* of 222 and one of 111, and the only submission is the release of 111.
C5_Witness ==
    /\ pc = "done"
    /\ StatusOf("222") = "inactive"
    /\ \E j \in 1..Len(eztv_data) : eztv_data[j].imdb_id = "222"
    /\ Len(sink) = 1
    /\ sink[1].imdb_id = "111"

\* C6: after a write_cache(d) that returned True, read_cache() returns a document
\* equal to d; and read_cache() without a file returns the empty document.
C6_RoundTrip ==
    /\ write_result = "True" => same_doc(read_cache(disk), cache_dict)
    /\ (pc \notin {"idle", "connect", "read", "crashed"} /\ disk = NoFile) =>
          loaded_doc = EmptyDoc

\* The positions of a run that has come to the download pass.
PassPositions == {"fetch", "shows", "seasons", "episodes"}

\* C9, as claimed: in a run that reaches the download pass nothing is written before
\* the pass is over, and then the document is written once if it differs from the
\* document loaded at the start of the run, and not at all if it does not.
C9_WrittenIffChanged ==
    [][(pc \in PassPositions) =>
          (IF pc = "shows" /\ pc' \in {"done", "crashed"}
           THEN writes = 0 /\ writes' = (IF ~same_doc(cache_dict, loaded_doc) THEN 1 ELSE 0)
           ELSE writes' = 0)]_vars

\* C9, amended: in a run that reaches the download pass nothing is written before
\* the pass is over, and then write_cache is called once if --add was given or the
\* pass recorded an episode, and not at all otherwise; so it is called whenever the
\* document differs from the one loaded.
C9_WrittenIffAddOrRecorded ==
    [][(pc \in PassPositions) =>
          (IF pc = "shows" /\ pc' \in {"done", "crashed"}
           THEN /\ writes = 0
                /\ writes' = (IF args.add # <<>> \/ sink # <<>> THEN 1 ELSE 0)
                /\ ~same_doc(cache_dict, loaded_doc) => writes' = 1
           ELSE writes' = 0)]_vars

\* C9 happens: a run with --add alone went through the pass, add inserted nothing,
\* no episode was recorded, and the unchanged document was written.
C9_Witness ==
    /\ pc = "done"
    /\ args.add # <<>>
    /\ args.purge = <<>> /\ args.deactivate = <<>>
    /\ ~args.list /\ ~args.list_downloaded
    /\ sink = <<>>
    /\ same_doc(cache_dict, loaded_doc)
    /\ writes = 1

\* The document has the version marker of the current layout and its shows mapping.
IsVersioned(doc) ==
    /\ "version" \in DOMAIN doc
    /\ doc["version"] >= CurrentVersion
    /\ has_shows(doc)

\* C10: when purge, deactivate, add, list or the download pass is about to read the
\* shows mapping, the document in memory is of the versioned layout, whatever the
\* file held.
C10_MigratedBeforeUse ==
    pc \in {"purge", "deactivate", "add", "list"} \cup PassPositions =>
        IsVersioned(cache_dict)

\* C14: no step of a run of main leaves the file empty or partly written: a file
\* that was complete before the step is complete after it.
C14_FileAlwaysComplete ==
    [][(pc # "idle" /\ disk # Truncated) => (disk' # Truncated)]_vars

\* C15: when the connection to Transmission fails the process exits with status 1
\* having called none of read_cache, write_cache, get_imdb_meta and fetch_eztv_data,
\* having submitted nothing, and with no document in memory.
C15_ConnectFailureExitsFirst ==
    pc = "exit1" =>
        /\ effects = {}
        /\ writes = 0
        /\ sink = <<>>
        /\ eztv_data = <<>>
        /\ cache_dict = EmptyDoc

\* C15 happens: a run with --add and --purge, started with a document on disk, has
\* ended at sys.exit(1).
C15_Witness ==
    /\ pc = "exit1"
    /\ args.add # <<>>
    /\ args.purge # <<>>
    /\ disk \notin {NoFile, Truncated}
    /\ has_shows(read_cache(disk))

\* C21: within a run no (show, season, episode) is submitted twice; the document in
\* memory holds under each submitted (show, season, episode) the link submitted; and
\* every link the document holds that the loaded document did not hold under the
\* same keys has been submitted.
C21_OneSubmissionRecordedAsSubmitted ==
    /\ \A i, j \in 1..Len(sink) :
          (/\ sink[i].imdb_id = sink[j].imdb_id
           /\ sink[i].season = sink[j].season
           /\ sink[i].episode = sink[j].episode) => i = j
    /\ \A i \in 1..Len(sink) :
          /\ HasLink(cache_dict, sink[i].imdb_id, sink[i].season, sink[i].episode)
          /\ LinkOf(cache_dict, sink[i].imdb_id, sink[i].season, sink[i].episode)
                = sink[i].link
    /\ has_shows(cache_dict) =>
          \A id \in DOMAIN cache_dict["shows"] :
              \A ks \in keys_of(cache_dict["shows"][id].seasons) :
                  \A ke \in keys_of(item(cache_dict["shows"][id].seasons, ks)) :
                      \/ /\ HasLink(loaded_doc, id, ks, ke)
                         /\ LinkOf(loaded_doc, id, ks, ke) = LinkOf(cache_dict, id, ks, ke)
                      \/ \E i \in 1..Len(sink) :
                            sink[i] = [imdb_id |-> id, season |-> ks, episode |-> ke,
                                       link |-> LinkOf(cache_dict, id, ks, ke)]

\* C21 happens: the pass has submitted two episodes of show 111 in a run whose
\* loaded document already held an episode of that show.
C21_Witness ==
    /\ pc = "done"
    /\ Len(sink) = 2
    /\ sink[1].imdb_id = "111" /\ sink[2].imdb_id = "111"
    /\ \E ks \in keys_of(loaded_doc["shows"]["111"].seasons) :
          item(loaded_doc["shows"]["111"].seasons, ks) # <<>>

\* The shows add_shows inserted in this run.
InsertedShows ==
    IF has_shows(cache_dict) /\ has_shows(loaded_doc) /\ args.add # <<>>
    THEN DOMAIN cache_dict["shows"] \ DOMAIN loaded_doc["shows"]
    ELSE {}

\* C22: a run in which add_shows inserted a show and which has ended normally has
\* called write_cache, and the file it wrote holds that show.
C22_AddedShowIsWritten ==
    (pc = "done" /\ InsertedShows # {}) =>
        /\ writes >= 1
        /\ write_result = "True" =>
              \A id \in InsertedShows : id \in DOMAIN read_cache(disk)["shows"]

(***************************************************************************)
(* Properties of convert_cache, add_shows, remove_shows and purge_shows.   *)
(***************************************************************************)
\* C11: convert_cache applied to the document a conversion returned returns None and
\* leaves that document, its version marker and every show entry, as it was.
C11_SecondConversionIsNoOp ==
    [][(op = "converted" /\ op' = "convert_cache") =>
          (op_result' = None /\ cache_dict' = cache_dict)]_vars

\* C11 happens: convert_cache was applied to the conversion of a document with a
\* version marker below the current one, whose key 'version' had become a show.
C11_Witness ==
    /\ op = "convert_cache"
    /\ pc = "ops_returned"
    /\ has_shows(cache_dict)
    /\ "version" \in DOMAIN cache_dict["shows"]
    /\ cache_dict["version"] = CurrentVersion
    /\ op_before = cache_dict
    /\ op_result = None

\* The file before the call.
FileBefore == IF has_shows(op_before) THEN json_dump(op_before) ELSE NoFile

\* C12, as claimed: none of add_shows, remove_shows and purge_shows calls write_cache
\* or changes the file.
C12_NoOperationWrites ==
    op \in {"add_shows", "remove_shows", "purge_shows"} =>
        writes = 0 /\ disk = FileBefore

\* C12, amended: add_shows and remove_shows never call write_cache and leave the file
\* as it was; purge_shows calls write_cache itself, once, with the document after the
\* deletions, exactly when it deleted a show, and not at all when it deleted none.
C12_OnlyPurgeWrites ==
    /\ op \in {"add_shows", "remove_shows"} => writes = 0 /\ disk = FileBefore
    /\ op = "purge_shows" =>
          /\ writes = (IF cache_dict # op_before THEN 1 ELSE 0)
          /\ writes = 0 => disk = FileBefore
          /\ write_result = "True" => same_doc(read_cache(disk), cache_dict)

\* C12 happens: purge_shows deleted show 222 and has written the document without it.
C12_Witness ==
    /\ op = "purge_shows"
    /\ pc = "ops_returned"
    /\ "222" \in DOMAIN op_before["shows"]
    /\ "222" \notin DOMAIN cache_dict["shows"]
    /\ writes = 1
    /\ write_result = "True"
    /\ disk # FileBefore

\* C13: when the write_cache of purge_shows fails the failure is logged, and
\* purge_shows neither logs "Cache updated" nor returns True.
C13_FailedWriteNotCompleted ==
    (op = "purge_shows" /\ write_result = "False") =>
        /\ "Failed to write cache" \in op_log
        /\ "Cache updated" \notin op_log
        /\ op_result = FALSE

\* The ids of a list, as add_shows looks them up.
NormalizedIds(ids) == {normalize_id(ids[i]) : i \in 1..Len(ids)}

\* C18: after add_shows every show that was in the document is there unchanged, and
\* an id that was not there is a show afterwards exactly when it is in ids and a
\* lookup for it succeeds; such a show has empty seasons and status active.
C18_AddInsertsOnlyNewFound ==
    (op = "add_shows" /\ pc = "ops_returned") =>
        LET old == op_before["shows"]
            new == cache_dict["shows"]
        IN /\ \A id \in DOMAIN old : id \in DOMAIN new /\ new[id] = old[id]
           /\ \A id \in (NormalizedIds(op_ids) \cup DOMAIN new) \ DOMAIN old :
                 /\ id \in DOMAIN new <=>
                       \E i \in 1..Len(op_ids) :
                           normalize_id(op_ids[i]) = id /\ op_found[i]
                 /\ id \in DOMAIN new =>
                       new[id].seasons = <<>> /\ new[id].status = "active"
           /\ cache_dict = [op_before EXCEPT !["shows"] = new]
           /\ op_result = cache_dict

\* C18 happens: add_shows was given the inactive show 222, which it left inactive,
\* and two ids that were not tracked: one was inserted, the lookup of the other failed.
C18_Witness ==
    /\ op = "add_shows"
    /\ pc = "ops_returned"
    /\ op_before = TestDocRecorded
    /\ "vv222" \in {op_ids[i] : i \in 1..Len(op_ids)}
    /\ cache_dict["shows"]["222"].status = "inactive"
    /\ "333" \in DOMAIN cache_dict["shows"]
    /\ cache_dict["shows"]["111"].seasons = SeasonsRead

\* C19: after purge_shows the shows are those that were there and are not in ids,
\* each unchanged; it returns True exactly when it deleted a show, and when no id is
\* present the document is unchanged.
C19_PurgeRemovesExactlyPresentIds ==
    (op = "purge_shows" /\ pc = "ops_returned") =>
        LET old == op_before["shows"]
            new == cache_dict["shows"]
            ids == {op_ids[i] : i \in 1..Len(op_ids)}
        IN /\ DOMAIN new = DOMAIN old \ ids
           /\ \A id \in DOMAIN new : new[id] = old[id]
           /\ cache_dict = [op_before EXCEPT !["shows"] = new]
           /\ op_result = (ids \cap DOMAIN old # {})
           /\ ids \cap DOMAIN old = {} => cache_dict = op_before /\ op_result = FALSE

\* C19 happens: purge_shows was given the two tracked shows, deleted both and
\* returned True.
C19_Witness ==
    /\ op = "purge_shows"
    /\ pc = "ops_returned"
    /\ op_ids = <<"111", "222">>
    /\ DOMAIN op_before["shows"] = {"111", "222"}
    /\ DOMAIN cache_dict["shows"] = {}
    /\ op_result = TRUE

\* C20: the document convert_cache returns has the current version marker and one
\* show per top-level key of the old document, with status active, the old value as
\* seasons, and the four fields url, title, status and seasons.
C20_ConversionYieldsFullShows ==
    (op = "convert_cache" /\ op_result # None) =>
        /\ op_result["version"] = CurrentVersion
        /\ DOMAIN op_result["shows"] = DOMAIN op_before
        /\ \A id \in DOMAIN op_before :
              /\ op_result["shows"][id].status = "active"
              /\ op_result["shows"][id].seasons = op_before[id]
              /\ DOMAIN op_result["shows"][id] = {"url", "title", "status", "seasons"}

(***************************************************************************)
(* Properties of fetch_eztv_data.                                          *)
(***************************************************************************)
\* The releases of the pages below n that were answered with a torrents list.
RECURSIVE ReleasesOfOkPages(_)
ReleasesOfOkPages(n) ==
    IF n = 0 THEN <<>>
    ELSE ReleasesOfOkPages(n - 1)
            \o (IF outcome[n - 1] = "ok" THEN PageReleases(n - 1) ELSE <<>>)

\* The request issued last.
LastRequest == page_log[Len(page_log)]

\* C16: the requests for a page go through the endpoints in list order with attempts
\* 1, 2, 3 on each; a request follows another for the same page only when that one
\* failed, and the next endpoint is tried only after attempt 3 failed; a page costs at
\* most 3 requests per endpoint; and a page answered on attempt 3 with a torrents
\* list has its releases in the result.
C16_EndpointsInOrderThreeAttempts ==
    /\ Len(page_log) <= REQUEST_MAX_RETRIES * Len(API_URLS)
    /\ \A i \in 1..Len(page_log) :
          /\ page_log[i].url_index = (i - 1) \div REQUEST_MAX_RETRIES
          /\ page_log[i].attempt = ((i - 1) % REQUEST_MAX_RETRIES) + 1
          /\ page_log[i].page = page_log[1].page
          /\ i < Len(page_log) => attempt_fails(page_log[i].result)
    /\ (pc = "fetching" /\ page \in requested) => attempt_fails(LastRequest.result)
    /\ (/\ page_log # <<>>
        /\ LastRequest.attempt = REQUEST_MAX_RETRIES
        /\ LastRequest.result = [status_code |-> 200, body |-> "torrents"]) =>
          /\ outcome[LastRequest.page] = "ok"
          /\ torrents = ReleasesOfOkPages(LastRequest.page + 1)

\* C16 happens: the second endpoint answered page 1 on its third attempt, after the
\* first endpoint failed three times, and the call has returned.
C16_Witness ==
    /\ pc = "fetched"
    /\ Len(page_log) = 2 * REQUEST_MAX_RETRIES
    /\ LastRequest.page = 1
    /\ LastRequest.url_index = 1
    /\ LastRequest.attempt = REQUEST_MAX_RETRIES
    /\ LastRequest.result = [status_code |-> 200, body |-> "torrents"]
    /\ torrents = PageReleases(1)

\* C17: a page answered with status 200 and a body that is not JSON, or is JSON
\* without a torrents list, is skipped: nothing is raised, the releases accumulated
\* are those of the earlier pages, and the loop is at the next page or has returned.
C17_MalformedBodySkipsPage ==
    (/\ page_log # <<>>
     /\ ~attempt_fails(LastRequest.result)
     /\ LastRequest.result.status_code = 200
     /\ LastRequest.result.body # "torrents") =>
        /\ pc \in {"fetching", "fetched"}
        /\ outcome[LastRequest.page] = "skipped"
        /\ page = LastRequest.page + 1
        /\ torrents = ReleasesOfOkPages(LastRequest.page)

\* C7: a page all of whose attempts failed with a transport error is skipped without
\* raising: the call ends by returning, every later page below page_count has been
\* requested by then, and the result holds the releases of every page that succeeded.
C7_ExhaustedPageIsSkipped ==
    \A p \in DOMAIN outcome :
        (outcome[p] = "failed_transport" /\ pc \in {"fetched", "raised"}) =>
            /\ pc = "fetched"
            /\ \A q \in (p + 1)..(page_count - 1) : q \in requested
            /\ torrents = ReleasesOfOkPages(page_count)

\* C8: once a request for a page is answered with status 404 the call has returned,
\* no later page is ever requested, and the releases returned are those accumulated
\* from the earlier pages.
C8_NotFoundEndsPagination ==
    \A p \in got_404 :
        /\ pc = "fetched"
        /\ \A q \in requested : q <= p
        /\ torrents = ReleasesOfOkPages(p)

====
